---------------------------- MODULE Spec2Model ----------------------------
(***************************************************************************)
(* State-machine model of the AWS S3 storage provider                      *)
(* (src/providers/storage/awsS3.ts, class AwsS3).                          *)
(*                                                                         *)
(* One provider instance is modelled together with the asynchronous calls  *)
(* that are in flight on it.  JavaScript runs every synchronous stretch of *)
(* code to completion, so an action is the code between two awaits.        *)
(* JavaScript strings are sequences of one-character strings, so that      *)
(* template literals and String.prototype.endsWith are computed, not       *)
(* assumed.                                                                *)
(***************************************************************************)
EXTENDS Naturals, Sequences, FiniteSets

\* ------------------------------------------------------------------ bounds
\* Number of calls made on the provider instance (they may all overlap).
MaxCalls == 2

\* ------------------------------------------------------------ JS values
\* The JavaScript value `undefined` (no string of characters equals it).
Undefined == << "undefined" >>

\* JavaScript truthiness of a string-or-undefined value: !!v
Truthy(v) == v # Undefined /\ v # << >>

\* ToString(v) as a template literal `${v}` applies it to a
\* string-or-undefined value.
ToString(v) ==
    IF v = Undefined
    THEN << "u", "n", "d", "e", "f", "i", "n", "e", "d" >>
    ELSE v

\* `${file}` for a plain object (an S3.Object of Contents): the object has no
\* toString of its own, so Object.prototype.toString gives "[object Object]".
ObjectToString(file) ==
    << "[", "o", "b", "j", "e", "c", "t", " ",
       "O", "b", "j", "e", "c", "t", "]" >>

\* String.prototype.endsWith
endsWith(s, e) ==
    /\ Len(e) <= Len(s)
    /\ SubSeq(s, Len(s) - Len(e) + 1, Len(s)) = e

\* String.prototype.startsWith (the backend's Prefix scoping)
startsWith(s, p) ==
    /\ Len(p) <= Len(s)
    /\ SubSeq(s, 1, Len(p)) = p

\* Array.prototype.slice(1)
Slice1(a) == IF a = << >> THEN << >> ELSE Tail(a)

\* --------------------------------------------------------------- options
\* IAwsS3Options values the provider is constructed with.  `present` is
\* FALSE when the constructor is called without an options argument.
FullOptions ==
    [ present |-> TRUE,
      accessKeyId |-> << "A" >>, secretAccessKeyId |-> << "S" >>,
      bucket |-> << "b", "k" >>, folder |-> << "f" >>,
      region |-> << "r" >>, apiVersion |-> Undefined ]

AbsentOptions ==
    [ present |-> FALSE,
      accessKeyId |-> Undefined, secretAccessKeyId |-> Undefined,
      bucket |-> Undefined, folder |-> Undefined,
      region |-> Undefined, apiVersion |-> Undefined ]

OptionValues ==
    { FullOptions,
      [FullOptions EXCEPT !.bucket = Undefined, !.apiVersion = << "v" >>],
      AbsentOptions }

RequiredMissing(o) ==
    \/ ~o.present
    \/ o.accessKeyId = Undefined
    \/ o.secretAccessKeyId = Undefined
    \/ o.bucket = Undefined

\* --------------------------------------------------------------- backend
\* Object keys of the bucket: the folder marker (the scoped prefix itself)
\* and two real objects under it.
RootKey == << "f" >>
Keys == { RootKey, << "f", "/", "a" >>, << "f", "/", "b" >> }
Bodies == { << "x" >>, << "y" >> }

\* The bucket's objects in the order the backend enumerates them: any
\* of the keys, each at most once, in any order.
Listings ==
    { s \in UNION { [1..n -> Keys] : n \in 0..Cardinality(Keys) } :
        \A i, j \in DOMAIN s : i # j => s[i] # s[j] }

\* Error codes with which the SDK client rejects a request that reached it:
\* the backend cannot be reached or refuses the credentials.
ConnectionErrors == { "NetworkingError" }

\* listObjectsV2({Bucket, Prefix}) on the objects stored: the Contents of a
\* successful response (one S3.Object per key under the prefix).
ListObjectsV2(objects, request) ==
    LET under(o) == request.Prefix = Undefined \/ startsWith(o.Key, request.Prefix)
        sel == SelectSeq(objects, under)
    IN  [ i \in 1..Len(sel) |-> [ Key |-> sel[i].Key ] ]

\* The answers the SDK client can give to a request.  A request that names
\* no bucket is refused by the client's parameter validation; any other
\* request is answered with the listing or fails on the way.
Responses(objects, request) ==
    IF request.Bucket = Undefined
    THEN { [ ok |-> FALSE, code |-> "MissingRequiredParameter", Contents |-> << >> ] }
    ELSE { [ ok |-> FALSE, code |-> c, Contents |-> << >> ] : c \in ConnectionErrors }
         \cup
         { [ ok |-> TRUE, code |-> "", Contents |-> ListObjectsV2(objects, request) ] }

\* ------------------------------------------------------ promise outcomes
\* How a promise settles: resolved with `value`, or rejected with an error
\* whose message is `msg`; `files` are the backend entries `value` was
\* built from.
Resolved(value, files) == [ ok |-> TRUE, msg |-> "", value |-> value, files |-> files ]
Rejected(msg) == [ ok |-> FALSE, msg |-> msg, value |-> << >>, files |-> << >> ]
Pending == [ ok |-> FALSE, msg |-> "pending", value |-> << >>, files |-> << >> ]


\* ------------------------------------------------------------ the provider
\* Extension filters a caller passes to listFiles: none, one that every
\* decorated entry ends with, and one that no decorated entry ends with.
ExtValues == { Undefined, << "t", "]" >>, << "g" >> }

NoHandle == 0

VARIABLES
    instance,        \* "none" before construction, "constructed", or "TypeError"
    options,         \* this.options
    S3Connection,    \* this.S3Connection: NoHandle while unset, else the handle
    handlesCreated,  \* number of `new S3(...)` evaluated so far
    requests,        \* number of listObjectsV2 requests handed to the client
    bucketObjects,   \* what the backend stores: sequence of [Key, Body]
    calls,           \* the calls made on the instance, by call number
    initSucceeded,   \* some initialize() call has resolved
    initFailed       \* some initialize() call has rejected

vars ==
    << instance, options, S3Connection, handlesCreated, requests,
       bucketObjects, calls, initSucceeded, initFailed >>

CallIds == 1..MaxCalls

IdleCall ==
    [ op |-> "none", ext |-> Undefined, pc |-> "idle", handle |-> NoHandle,
      bucket |-> Undefined, request |-> [ Bucket |-> Undefined, Prefix |-> Undefined ],
      answer |-> "", Contents |-> << >>, listed |-> Pending, outcome |-> Pending ]

\* constructor: dereferences this.options, then defaults apiVersion.
Constructor(o) ==
    IF ~o.present
    THEN [ instance |-> "TypeError", options |-> o ]
    ELSE [ instance |-> "constructed",
           options |-> IF ~Truthy(o.apiVersion)
                       THEN [o EXCEPT !.apiVersion = << "l", "a", "t", "e", "s", "t" >>]
                       ELSE o ]

\* getS3Connection: the memoised handle, created when this.S3Connection is
\* unset.  Gives the new field value, the count of handles created and the
\* handle returned.
GetS3ConnectionAlwaysNew(conn, created) ==
    [ S3Connection |-> created + 1, created |-> created + 1, handle |-> created + 1 ]

getS3Connection(conn, created) ==
    IF conn = NoHandle
    THEN [ S3Connection |-> created + 1, created |-> created + 1, handle |-> created + 1 ]
    ELSE [ S3Connection |-> conn, created |-> created, handle |-> conn ]

\* listContainers after its await: drop the first entry, decorate the rest.
listContainersResume(bucket, response) ==
    IF ~response.ok
    THEN Rejected(response.code)
    ELSE LET filesOnly == Slice1(response.Contents)
         IN  Resolved([ i \in 1..Len(filesOnly) |->
                            ToString(bucket) \o ObjectToString(filesOnly[i]) ],
                      filesOnly)

\* initialize after its await: the listing is logged and dropped; a
\* rejection of listContainers is rethrown.
InitializeSwallow(listed) == Resolved(<< >>, << >>)

initializeResume(listed) ==
    IF listed.ok THEN Resolved(<< >>, << >>) ELSE listed

\* listFiles after its await: filter(file => !!ext ? file.endsWith(ext) : true)
ListFilesNoDefault(listed, ext) ==
    IF ~listed.ok
    THEN listed
    ELSE LET keep(file) == Truthy(ext) /\ endsWith(file, ext)
             kept == { i \in 1..Len(listed.value) : keep(listed.value[i]) }
             pos(n) == CHOOSE i \in kept : Cardinality({ j \in kept : j <= i }) = n
         IN  Resolved([ n \in 1..Cardinality(kept) |-> listed.value[pos(n)] ],
                      [ n \in 1..Cardinality(kept) |-> listed.files[pos(n)] ])

listFilesResume(listed, ext) ==
    IF ~listed.ok
    THEN listed
    ELSE LET keep(file) == IF Truthy(ext) THEN endsWith(file, ext) ELSE TRUE
             kept == { i \in 1..Len(listed.value) : keep(listed.value[i]) }
             pos(n) == CHOOSE i \in kept : Cardinality({ j \in kept : j <= i }) = n
         IN  Resolved([ n \in 1..Cardinality(kept) |-> listed.value[pos(n)] ],
                      [ n \in 1..Cardinality(kept) |-> listed.files[pos(n)] ])

\* writeText: throws; the upload is commented out.  Gives the promise's
\* outcome and the objects stored afterwards.
WriteTextUpload(objects, blobName, content) ==
    [ outcome |-> Resolved(<< >>, << >>),
      objects |-> [ i \in 1..Len(objects) |->
                      IF objects[i].Key = blobName
                      THEN [ Key |-> blobName, Body |-> content ]
                      ELSE objects[i] ] ]

writeText(objects, blobName, content) ==
    [ outcome |-> Rejected("writeText not implemented"), objects |-> objects ]

\* writeBinary: return this.writeText(blobName, content)
writeBinary(objects, blobName, content) == writeText(objects, blobName, content)

\* deleteFile: throws; the delete is commented out.
deleteFile(objects, blobName) ==
    [ outcome |-> Rejected("deleteFile not implemented"), objects |-> objects ]

\* createContainer / deleteContainer: throw.
CreateContainerNoop(containerName) == Resolved(<< >>, << >>)

createContainer(containerName) ==
    Rejected("createContainer not implemented for AwsS3 provider")

deleteContainer(containerName) ==
    Rejected("deleteContainer not implemented for AwsS3 provider")

\* getAssets: throws.
getAssets(containerName) ==
    Rejected("getAssets not implemented for AwsS3 provider")

\* getBlockBlobURL: throws.
getBlockBlobURL(blobName) ==
    Rejected("getBlockBlobURL not implemented for AwsS3 provider")

\* readText: its first statement calls getBlockBlobURL, whose throw rejects
\* the promise.
readText(blobName) == getBlockBlobURL(blobName)

\* readBinary after its await of readText: a rejection is rethrown.
readBinaryResume(text) ==
    IF text.ok THEN Resolved(text.value, << >>) ELSE text

\* ---------------------------------------------------------------- actions
Init ==
    /\ instance = "none"
    /\ options \in OptionValues
    /\ S3Connection = NoHandle
    /\ handlesCreated = 0
    /\ requests = 0
    /\ bucketObjects \in
          { [ i \in DOMAIN s |-> [ Key |-> s[i], Body |-> << "x" >> ] ] : s \in Listings }
    /\ calls = [ c \in CallIds |-> IdleCall ]
    /\ initSucceeded = FALSE
    /\ initFailed = FALSE

\* new AwsS3(options)
Construct ==
    /\ instance = "none"
    /\ LET made == Constructor(options)
       IN  /\ instance' = made.instance
           /\ options' = made.options
    /\ UNCHANGED << S3Connection, handlesCreated, requests, bucketObjects,
                    calls, initSucceeded, initFailed >>

\* Call c can be made: the instance exists and the calls are numbered in
\* the order they are made.
CanCall(c) ==
    /\ instance = "constructed"
    /\ calls[c].pc = "idle"
    /\ c > 1 => calls[c - 1].pc # "idle"

\* listContainers up to its await: reads the bucket, takes the connection
\* and hands listObjectsV2({Bucket, Prefix}) to it.  initialize and
\* listFiles start by calling listContainers(null).
BeginListContainers(c, op, ext) ==
    /\ CanCall(c)
    /\ LET got == getS3Connection(S3Connection, handlesCreated)
       IN  /\ S3Connection' = got.S3Connection
           /\ handlesCreated' = got.created
           /\ calls' = [ calls EXCEPT ![c] =
                  [ IdleCall EXCEPT
                      !.op = op, !.ext = ext, !.pc = "awaitS3",
                      !.handle = got.handle,
                      !.bucket = options.bucket,
                      !.request = [ Bucket |-> options.bucket,
                                    Prefix |-> options.folder ] ] ]
    /\ requests' = requests + 1
    /\ UNCHANGED << instance, options, bucketObjects, initSucceeded, initFailed >>

Initialize(c) == BeginListContainers(c, "initialize", Undefined)

ListContainers(c) == BeginListContainers(c, "listContainers", Undefined)

ListFiles(c) == \E ext \in ExtValues : BeginListContainers(c, "listFiles", ext)

\* The client answers the request of call c and listContainers runs to its
\* end.  A direct listContainers call is then settled; initialize and
\* listFiles are still awaiting the promise just settled.
AnswerListObjects(c) ==
    /\ calls[c].pc = "awaitS3"
    /\ \E response \in Responses(bucketObjects, calls[c].request) :
          LET listed == listContainersResume(calls[c].bucket, response)
          IN  calls' = [ calls EXCEPT ![c] =
                  [ @ EXCEPT
                      !.answer = IF response.ok THEN "ok" ELSE response.code,
                      !.Contents = response.Contents,
                      !.listed = listed,
                      !.pc = IF @ = "awaitS3" /\ calls[c].op = "listContainers"
                             THEN "done" ELSE "awaitList",
                      !.outcome = IF calls[c].op = "listContainers"
                                  THEN listed ELSE Pending ] ]
    /\ UNCHANGED << instance, options, S3Connection, handlesCreated, requests,
                    bucketObjects, initSucceeded, initFailed >>

\* initialize continues after `await this.listContainers(null)`.
InitializeResume(c) ==
    /\ calls[c].pc = "awaitList"
    /\ calls[c].op = "initialize"
    /\ LET outcome == initializeResume(calls[c].listed)
       IN  /\ calls' = [ calls EXCEPT ![c].pc = "done", ![c].outcome = outcome ]
           /\ initSucceeded' = (initSucceeded \/ outcome.ok)
           /\ initFailed' = (initFailed \/ ~outcome.ok)
    /\ UNCHANGED << instance, options, S3Connection, handlesCreated, requests,
                    bucketObjects >>

\* listFiles continues after `await this.listContainers(null)`.
ListFilesResume(c) ==
    /\ calls[c].pc = "awaitList"
    /\ calls[c].op = "listFiles"
    /\ calls' = [ calls EXCEPT
                    ![c].pc = "done",
                    ![c].outcome = listFilesResume(calls[c].listed, calls[c].ext) ]
    /\ UNCHANGED << instance, options, S3Connection, handlesCreated, requests,
                    bucketObjects, initSucceeded, initFailed >>

\* Call c is op and settles at once with `outcome`.
Settle(c, op, outcome) ==
    calls' = [ calls EXCEPT ![c] =
                 [ IdleCall EXCEPT !.op = op, !.pc = "done", !.outcome = outcome ] ]

ReadText(c) ==
    /\ CanCall(c)
    /\ \E blobName \in Keys : Settle(c, "readText", readText(blobName))
    /\ UNCHANGED << instance, options, S3Connection, handlesCreated, requests,
                    bucketObjects, initSucceeded, initFailed >>

\* readBinary up to its await of this.readText(blobName).
ReadBinary(c) ==
    /\ CanCall(c)
    /\ \E blobName \in Keys :
          calls' = [ calls EXCEPT ![c] =
                       [ IdleCall EXCEPT !.op = "readBinary", !.pc = "awaitRead",
                                         !.listed = readText(blobName) ] ]
    /\ UNCHANGED << instance, options, S3Connection, handlesCreated, requests,
                    bucketObjects, initSucceeded, initFailed >>

ReadBinaryResume(c) ==
    /\ calls[c].pc = "awaitRead"
    /\ calls' = [ calls EXCEPT ![c].pc = "done",
                               ![c].outcome = readBinaryResume(calls[c].listed) ]
    /\ UNCHANGED << instance, options, S3Connection, handlesCreated, requests,
                    bucketObjects, initSucceeded, initFailed >>

WriteText(c) ==
    /\ CanCall(c)
    /\ \E blobName \in Keys, content \in Bodies :
          LET did == writeText(bucketObjects, blobName, content)
          IN  /\ Settle(c, "writeText", did.outcome)
              /\ bucketObjects' = did.objects
    /\ UNCHANGED << instance, options, S3Connection, handlesCreated, requests,
                    initSucceeded, initFailed >>

WriteBinary(c) ==
    /\ CanCall(c)
    /\ \E blobName \in Keys, content \in Bodies :
          LET did == writeBinary(bucketObjects, blobName, content)
          IN  /\ Settle(c, "writeBinary", did.outcome)
              /\ bucketObjects' = did.objects
    /\ UNCHANGED << instance, options, S3Connection, handlesCreated, requests,
                    initSucceeded, initFailed >>

DeleteFile(c) ==
    /\ CanCall(c)
    /\ \E blobName \in Keys :
          LET did == deleteFile(bucketObjects, blobName)
          IN  /\ Settle(c, "deleteFile", did.outcome)
              /\ bucketObjects' = did.objects
    /\ UNCHANGED << instance, options, S3Connection, handlesCreated, requests,
                    initSucceeded, initFailed >>

CreateContainer(c) ==
    /\ CanCall(c)
    /\ \E containerName \in Keys :
          Settle(c, "createContainer", createContainer(containerName))
    /\ UNCHANGED << instance, options, S3Connection, handlesCreated, requests,
                    bucketObjects, initSucceeded, initFailed >>

DeleteContainer(c) ==
    /\ CanCall(c)
    /\ \E containerName \in Keys :
          Settle(c, "deleteContainer", deleteContainer(containerName))
    /\ UNCHANGED << instance, options, S3Connection, handlesCreated, requests,
                    bucketObjects, initSucceeded, initFailed >>

GetAssets(c) ==
    /\ CanCall(c)
    /\ \E containerName \in Keys \cup { Undefined } :
          Settle(c, "getAssets", getAssets(containerName))
    /\ UNCHANGED << instance, options, S3Connection, handlesCreated, requests,
                    bucketObjects, initSucceeded, initFailed >>

Next ==
    \/ Construct
    \/ \E c \in CallIds :
          \/ Initialize(c)
          \/ ListContainers(c)
          \/ ListFiles(c)
          \/ AnswerListObjects(c)
          \/ InitializeResume(c)
          \/ ListFilesResume(c)
          \/ ReadText(c)
          \/ ReadBinary(c)
          \/ ReadBinaryResume(c)
          \/ WriteText(c)
          \/ WriteBinary(c)
          \/ DeleteFile(c)
          \/ CreateContainer(c)
          \/ DeleteContainer(c)
          \/ GetAssets(c)

Spec == Init /\ [][Next]_vars

\* ----------------------------------------------------------- properties
ListOps == { "initialize", "listContainers", "listFiles" }
DataOps ==
    { "readText", "readBinary", "writeText", "writeBinary", "deleteFile",
      "listFiles", "listContainers", "getAssets" }
ContainerOps == { "createContainer", "deleteContainer" }
WriteOps == { "writeText", "writeBinary", "deleteFile" }

Settled(c) == calls[c].pc = "done"

\* The provider signals an operation it does not implement by rejecting
\* with `Error("<name> not implemented ...")`.
Unsupported(outcome) ==
    /\ ~outcome.ok
    /\ outcome.msg \in
          { "writeText not implemented",
            "deleteFile not implemented",
            "createContainer not implemented for AwsS3 provider",
            "deleteContainer not implemented for AwsS3 provider",
            "getAssets not implemented for AwsS3 provider",
            "getBlockBlobURL not implemented for AwsS3 provider" }

\* e is a suffix of s, said without endsWith.
IsSuffix(e, s) == \E n \in 0..Len(s) : s = SubSeq(s, 1, n) \o e

\* Call c is made in this step.
Made(c) == calls[c].pc = "idle" /\ calls'[c].pc # "idle"

\* C1: while no initialize() has completed successfully, every data
\* operation fails with NotReady, hands no request to the backend and
\* returns no successful result.
C1_NotReadyBeforeInitialize ==
    ~initSucceeded =>
        \A c \in CallIds :
            calls[c].op \in DataOps =>
                /\ calls[c].handle = NoHandle
                /\ calls[c].pc # "awaitS3"
                /\ Settled(c) => ~calls[c].outcome.ok /\ calls[c].outcome.msg = "NotReady"

\* C2: at most one connection handle is ever created, the handle every
\* operation used is the memoised one, and once this.S3Connection is set no
\* step replaces or clears it.
C2_SingleHandle ==
    /\ [](/\ handlesCreated <= 1
          /\ \A c \in CallIds :
                calls[c].op \in ListOps => calls[c].handle = S3Connection)
    /\ [][S3Connection # NoHandle => S3Connection' = S3Connection]_vars

\* C2 witness: two operations that need the connection are in flight at
\* the same time, both holding the handle.
C2_Witness ==
    /\ calls[1].pc = "awaitS3" /\ calls[2].pc = "awaitS3"
    /\ calls[1].op = "initialize" /\ calls[2].op = "listFiles"
    /\ calls[2].handle # NoHandle

\* C3: a settled listContainers or listFiles never returns the entry of the
\* scoped root itself (the object whose key is the folder prefix).
C3_RootNeverListed ==
    \A c \in CallIds :
        ( /\ Settled(c)
          /\ calls[c].op \in { "listContainers", "listFiles" }
          /\ calls[c].outcome.ok )
        => \A i \in DOMAIN calls[c].outcome.files :
              calls[c].outcome.files[i].Key # calls[c].request.Prefix

\* C4: listContainers drops the first backend entry only if it is the scoped
\* prefix itself; every other entry is returned once, in the backend's order.
C4_DropsOnlyTheRoot ==
    \A c \in CallIds :
        ( /\ Settled(c)
          /\ calls[c].op = "listContainers"
          /\ calls[c].outcome.ok )
        => calls[c].outcome.files =
              IF /\ calls[c].Contents # << >>
                 /\ calls[c].Contents[1].Key = calls[c].request.Prefix
              THEN Tail(calls[c].Contents)
              ELSE calls[c].Contents

\* C5: once an initialize() has failed, no later step hands a request to the
\* backend or makes the instance Ready, and every call made later fails.
C5_ErrorIsPermanent ==
    [][ initFailed =>
          /\ requests' = requests
          /\ initSucceeded' = initSucceeded
          /\ \A c \in CallIds :
                (Made(c) /\ calls'[c].pc = "done") => ~calls'[c].outcome.ok ]_vars

C8_MissingOptionsFailCleanly ==
    RequiredMissing(options) =>
        /\ instance # "TypeError"
        /\ requests = 0
        /\ \A c \in CallIds :
              Settled(c) =>
                  ~calls[c].outcome.ok /\ calls[c].outcome.msg = "ConfigurationError"

\* C9: an initialize() call resolves only if, during that call, a listing
\* request was handed to the backend and answered successfully; when the
\* request fails, initialize() rejects with the backend's error.
C9_InitializeNeedsRoundTrip ==
    \A c \in CallIds :
        calls[c].op = "initialize" =>
            /\ calls[c].outcome.ok =>
                  /\ requests >= 1
                  /\ calls[c].handle # NoHandle
                  /\ calls[c].answer = "ok"
            /\ (Settled(c) /\ calls[c].answer # "ok") =>
                  /\ ~calls[c].outcome.ok
                  /\ calls[c].outcome.msg = calls[c].answer
            /\ initSucceeded =>
                  \E d \in CallIds : calls[d].op = "initialize" /\ calls[d].answer = "ok"

\* C9 witness: one initialize() was rejected because the backend could not
\* be reached, and another one resolved.
C9_Witness ==
    \E c, d \in CallIds :
        /\ calls[c].op = "initialize" /\ Settled(c)
        /\ calls[c].outcome.msg \in ConnectionErrors
        /\ calls[d].op = "initialize" /\ Settled(d) /\ calls[d].outcome.ok

\* C10: a settled listFiles(root, ext) returns exactly the entries of the
\* unfiltered listing of the same backend response that end with ext, in
\* the same order; without ext it returns the whole listing; so a filter
\* that is a suffix of every entry returns what no filter returns.
C10_FilterIsSuffixMatch ==
    \A c \in CallIds :
        ( /\ Settled(c)
          /\ calls[c].op = "listFiles"
          /\ calls[c].outcome.ok )
        => LET ext == calls[c].ext
               unfiltered == listFilesResume(calls[c].listed, Undefined).value
               matches(file) == IsSuffix(ext, file)
           IN  /\ unfiltered = calls[c].listed.value
               /\ ext = Undefined => calls[c].outcome.value = unfiltered
               /\ ext # Undefined =>
                     /\ calls[c].outcome.value = SelectSeq(unfiltered, matches)
                     /\ (\A i \in DOMAIN unfiltered : matches(unfiltered[i])) =>
                           calls[c].outcome.value = unfiltered

\* C10 witness: of two listings of a bucket with two listed entries, the
\* one filtered by a common suffix returned both and the one filtered by
\* another extension returned none.
C10_Witness ==
    \E c, d \in CallIds :
        /\ Settled(c) /\ calls[c].op = "listFiles" /\ calls[c].ext = << "t", "]" >>
        /\ Len(calls[c].outcome.value) = 2
        /\ Settled(d) /\ calls[d].op = "listFiles" /\ calls[d].ext = << "g" >>
        /\ calls[d].outcome.ok /\ calls[d].outcome.value = << >>
        /\ Len(calls[d].listed.value) = 2

=============================================================================
